---- MODULE Spec2Model ----
(***************************************************************************)
(* Model of ServiceCompiler (lib/compiler/classes/compiler.class.ts): the  *)
(* module-unpacking walk, the route compilation, the request handler       *)
(* adapter, and the metadata lookups they rest on.                         *)
(*                                                                         *)
(* Strings are sequences of one-character strings, so that joining and     *)
(* prefixing are computed and not assumed.  Every JavaScript value the     *)
(* code handles is a record [t, v]: t is its type and v its content.       *)
(***************************************************************************)
EXTENDS Integers, Sequences, FiniteSets, TLC

VARIABLES
    store,       \* the metadata store: <<target, key, scope>> -> value
    pc,          \* where bootstrap (or a pure-function call) stands
    stack,       \* the call stack of unpack, root frame first
    routes,      \* the layers registered on this.app, in registration order
    nInst,       \* instances Injector.resolve has created so far
    middleware,  \* what this.app.use has installed, in order
    calls,       \* component method invocations made by handlers, in order
    args,        \* the arguments of the call studied on its own (getPath, get)
    result       \* its result

vars == <<store, pc, stack, routes, nInst, middleware, calls, args, result>>

----------------------------------------------------------------------------
(* Bounds of the model *)

\* deepest call stack of unpack the model follows (a cyclic import graph
\* recurses without bound)
MaxDepth == 5
\* requests served after the server listens
MaxReq == 2
\* longest argument list given to getPath
MaxParts == 4

----------------------------------------------------------------------------
(* JavaScript values *)

Str(s) == [t |-> "str", v |-> s]
List(s) == [t |-> "list", v |-> s]
Null == [t |-> "null", v |-> <<>>]
Undefined == [t |-> "undefined", v |-> <<>>]

\* ToBoolean: null, undefined and '' are falsy; a non-empty string and any
\* array (also []) are truthy
Truthy(x) == /\ x.t \notin {"null", "undefined"}
             /\ ~(x.t = "str" /\ x.v = <<>>)

Slash == "/"

\* the string literals of the programs
sEmpty == <<>>
sRoot == <<"r", "o", "o", "t">>
sStuff == <<"s", "t", "u", "f", "f">>
sX == <<"x">>
sGet == <<"g", "e", "t">>
sPost == <<"p", "o", "s", "t">>

----------------------------------------------------------------------------
(* getPath *)

\* Array.prototype.filter: the elements that pass, in order
RECURSIVE Filter(_)
Filter(parts) ==
    IF parts = <<>> THEN <<>>
    ELSE IF Truthy(Head(parts)) THEN <<Head(parts)>> \o Filter(Tail(parts))
         ELSE Filter(Tail(parts))

\* Array.prototype.join: the elements' strings with sep between neighbours
RECURSIVE Join(_, _)
Join(parts, sep) ==
    IF parts = <<>> THEN <<>>
    ELSE IF Len(parts) = 1 THEN Head(parts).v
         ELSE Head(parts).v \o <<sep>> \o Join(Tail(parts), sep)

\* a plausible slip: the empty parts are not filtered out
getPathNoFilter(parts) == Str(Join(parts, Slash))

getPath(parts) == Str(Join(Filter(parts), Slash))

----------------------------------------------------------------------------
(* The metadata store (Injector) and the decorators that fill it *)

\* the scope of a record attached to the class itself
NoScope == ""

EmptyStore == [k \in {} |-> Null]

\* record value under (target, key, scope); an earlier record is overwritten
set(st, target, key, scope, value) ==
    [k \in DOMAIN st \cup {<<target, key, scope>>} |->
        IF k = <<target, key, scope>> THEN value ELSE st[k]]

\* a plausible slip: the class-scope record is preferred to the method's own
getClassFirst(st, target, key, default, scope) ==
    IF <<target, key, NoScope>> \in DOMAIN st THEN st[<<target, key, NoScope>>]
    ELSE IF <<target, key, scope>> \in DOMAIN st THEN st[<<target, key, scope>>]
    ELSE default

\* Injector.get on store st: the method-scope record, else the class-scope
\* record, else the default
getFrom(st, target, key, default, scope) ==
    IF <<target, key, scope>> \in DOMAIN st THEN st[<<target, key, scope>>]
    ELSE IF <<target, key, NoScope>> \in DOMAIN st THEN st[<<target, key, NoScope>>]
    ELSE default

get(target, key, default, scope) == getFrom(store, target, key, default, scope)

\* Injector.getAll: every key recorded for the method scope, with its value
getAll(target, scope) ==
    LET keys == {k \in {"path", "exports", "imports", "method"} :
                    <<target, k, scope>> \in DOMAIN store}
    IN  [k \in keys |-> store[<<target, k, scope>>]]

\* @LitModule(config): an omitted field is recorded with its default
LitModule(st, target, config) ==
    LET val(x, d) == IF x = Undefined THEN d ELSE x
        s1 == set(st, target, "path", NoScope, val(config.path, Str(sEmpty)))
        s2 == set(s1, target, "exports", NoScope, val(config.exports, List(<<>>)))
    IN  set(s2, target, "imports", NoScope, val(config.imports, List(<<>>)))

\* @LitModule() with no argument
NoConfig == [path |-> Undefined, exports |-> Undefined, imports |-> Undefined]

\* a request-mapping decorator on method name: the verb, and the sub-path
\* when one is given
Mapping(st, target, name, verb, path) ==
    LET s1 == set(st, target, "method", name, verb)
    IN  IF path = Undefined THEN s1 ELSE set(s1, target, "path", name, path)

----------------------------------------------------------------------------
(* The programs: three module classes, two component classes *)

Root == "M0"
Modules == {"M0", "M1", "M2"}
Components == {"A", "B"}

\* Object.getOwnPropertyNames(Component.prototype)
ownPropertyNames(Component) ==
    IF Component = "A" THEN <<"constructor", "getStuff", "other">>
    ELSE IF Component = "B" THEN <<"constructor", "list">>
    ELSE <<"constructor">>

\* how each module class may be declared; decorated = FALSE is a class that
\* carries no @LitModule
M0Decls ==
    {[decorated |-> TRUE, config |-> NoConfig]} \cup
    {[decorated |-> TRUE, config |-> [path |-> p, exports |-> List(e), imports |-> List(i)]] :
        p \in {Undefined, Str(sRoot), Str(sX)},
        e \in {<<"A">>, <<"A", "B">>},
        i \in {<<>>, <<"M1">>, <<"M1", "M2">>, <<"M2", "M1">>}}
M1Decls ==
    {[decorated |-> TRUE, config |-> [path |-> p, exports |-> List(<<"B">>), imports |-> List(i)]] :
        p \in {Str(sEmpty), Str(sX)},
        i \in {<<>>, <<"M2">>, <<"M0">>}}
M2Decls ==
    {[decorated |-> FALSE, config |-> NoConfig],
     [decorated |-> TRUE, config |-> [path |-> Str(sX), exports |-> List(<<"A">>), imports |-> Undefined]],
     [decorated |-> TRUE, config |-> [path |-> Undefined, exports |-> List(<<"B">>), imports |-> List(<<"M2">>)]]}

\* how each component method may be mapped; verb = Undefined is a method
\* that carries no mapping
GetStuffDecls ==
    {[verb |-> Undefined, path |-> Undefined],
     [verb |-> Str(sGet), path |-> Undefined],
     [verb |-> Str(sGet), path |-> Str(sStuff)],
     [verb |-> Str(sPost), path |-> Str(sStuff)]}
ListDecls ==
    {[verb |-> Undefined, path |-> Undefined],
     [verb |-> Str(sGet), path |-> Undefined],
     [verb |-> Str(sGet), path |-> Str(sEmpty)]}
\* a class-scope record under the verb key on component A, or none
ClassVerbDecls == {Undefined, Str(sGet)}

Declare(st, target, d) == IF d.decorated THEN LitModule(st, target, d.config) ELSE st
Map(st, target, name, d) ==
    IF d.verb = Undefined THEN st ELSE Mapping(st, target, name, d.verb, d.path)

\* the store once every class definition is loaded
Load(m0, m1, m2, gs, ls, cv) ==
    LET s1 == Declare(Declare(Declare(EmptyStore, "M0", m0), "M1", m1), "M2", m2)
        s2 == Map(Map(s1, "A", "getStuff", gs), "B", "list", ls)
    IN  IF cv = Undefined THEN s2 ELSE set(s2, "A", "method", NoScope, cv)

----------------------------------------------------------------------------
(* ServiceCompiler: route compilation *)

\* the names left once 'constructor' is filtered out
getMethodList(Component) ==
    SelectSeq(ownPropertyNames(Component), LAMBDA name : name # "constructor")

\* Injector.resolve(Component): a fresh instance, the n-th the injector made
resolve(Component, n) == [cls |-> Component, id |-> n]

\* the closure getHandler returns: the component instance and the method name
\* it has captured
getHandler(aComponent, name) == [inst |-> aComponent, name |-> name]

\* a plausible slip: the path is registered without the leading '/'
addRouteNoSlash(method, path, aComponent, name, site) ==
    <<[verb |-> method.v, path |-> path.v,
       handler |-> getHandler(aComponent, name), site |-> site]>>

\* this.app[method]('/' + path, handler): the layer it puts on the router.
\* site is history only: the place in the import tree of the module being
\* unpacked
addRoute(method, path, aComponent, name, site) ==
    <<[verb |-> method.v, path |-> <<Slash>> \o path.v,
       handler |-> getHandler(aComponent, name), site |-> site]>>

\* the layers addRouteFromMethod puts on the router (one or none), when the
\* instance it resolves is the n-th the injector makes
addRouteFromMethod(Component, method, path, n, site) ==
    LET aComponent == resolve(Component, n)
        reqMethod == get(aComponent.cls, "method", Null, method)
    IN  IF Truthy(reqMethod)
        THEN addRoute(reqMethod,
                      getPath(<<path, get(aComponent.cls, "path", Null, method)>>),
                      aComponent, method, site)
        ELSE <<>>

RECURSIVE Concat(_)
Concat(ss) == IF ss = <<>> THEN <<>> ELSE Head(ss) \o Concat(Tail(ss))

Reverse(seq) == [k \in 1..Len(seq) |-> seq[Len(seq) + 1 - k]]

\* the turns the inner forEach has made before it reaches component e of
\* includes: one for every method of the components before it
RECURSIVE TurnsBefore(_, _)
TurnsBefore(includes, e) ==
    IF e <= 1 THEN 0
    ELSE TurnsBefore(includes, e - 1) + Len(getMethodList(includes[e - 1]))

\* the layers the two nested forEach put on the router, in order, when the
\* injector has made n instances before
eachComponent(path, includes, n, site) ==
    Concat([e \in 1..Len(includes) |->
        Concat([m \in 1..Len(getMethodList(includes[e])) |->
            addRouteFromMethod(includes[e], getMethodList(includes[e])[m], path,
                               n + TurnsBefore(includes, e) + m, site)])])

\* a plausible slip: the export list is walked from its end
addExportedComponentsReversed(path, includes, n, site) ==
    eachComponent(path, Reverse(includes), n, site)

addExportedComponents(path, includes, n, site) ==
    eachComponent(path, includes, n, site)

----------------------------------------------------------------------------
(* ServiceCompiler: bootstrap and the unpack walk *)

\* unpack(Parent, inputPath) up to its forEach, called with stk as the stack
\* of its callers: the frame it runs in, and the routes of Parent's exports
\* registered.  site is history: the import indexes that lead from the root
\* module to this call
unpack(stk, Parent, inputPath, site) ==
    \E path \in {getPath(<<inputPath, get(Parent, "path", Str(sEmpty), NoScope)>>)},
       imports \in {get(Parent, "imports", List(<<>>), NoScope)},
       exports \in {get(Parent, "exports", List(<<>>), NoScope)} :
        /\ stack' = Append(stk, [Parent |-> Parent, path |-> path,
                                 imports |-> imports.v, i |-> 1, site |-> site])
        /\ routes' = routes \o addExportedComponents(path, exports.v, nInst, site)
        /\ nInst' = nInst + TurnsBefore(exports.v, Len(exports.v) + 1)

\* this.addParser()
addParser == middleware' = middleware \o <<"urlencoded", "json">>

\* bootstrap(Parent) up to the forEach of unpack(Parent)
bootstrap ==
    /\ pc = "start"
    /\ addParser
    /\ unpack(stack, Root, Str(sEmpty), <<>>)
    /\ pc' = "unpack"
    /\ UNCHANGED <<store, calls, args, result>>

\* a deviation the walk does not make: a module already being unpacked is
\* skipped instead of entered again
unpackChildOnce ==
    /\ pc = "unpack"
    /\ stack # <<>>
    /\ Len(stack) < MaxDepth
    /\ LET top == stack[Len(stack)]
       IN  /\ top.i <= Len(top.imports)
           /\ IF \E k \in 1..Len(stack) : stack[k].Parent = top.imports[top.i]
              THEN /\ stack' = [stack EXCEPT ![Len(stack)].i = @ + 1]
                   /\ UNCHANGED <<routes, nInst>>
              ELSE unpack([stack EXCEPT ![Len(stack)].i = @ + 1],
                          top.imports[top.i], top.path, Append(top.site, top.i))
    /\ UNCHANGED <<store, pc, middleware, calls, args, result>>

\* one turn of imports.forEach in the running unpack: unpack(Child, path)
unpackChild ==
    /\ pc = "unpack"
    /\ stack # <<>>
    /\ Len(stack) < MaxDepth
    /\ LET top == stack[Len(stack)]
       IN  /\ top.i <= Len(top.imports)
           /\ unpack([stack EXCEPT ![Len(stack)].i = @ + 1],
                     top.imports[top.i], top.path, Append(top.site, top.i))
    /\ UNCHANGED <<store, pc, middleware, calls, args, result>>

\* a plausible slip: the forEach runs one turn too many and never ends
unpackReturnOffByOne ==
    /\ pc = "unpack"
    /\ stack # <<>>
    /\ stack[Len(stack)].i > Len(stack[Len(stack)].imports) + 1
    /\ stack' = SubSeq(stack, 1, Len(stack) - 1)
    /\ UNCHANGED <<store, pc, routes, nInst, middleware, calls, args, result>>

\* the forEach of the running unpack is over: unpack returns to its caller
unpackReturn ==
    /\ pc = "unpack"
    /\ stack # <<>>
    /\ stack[Len(stack)].i > Len(stack[Len(stack)].imports)
    /\ stack' = SubSeq(stack, 1, Len(stack) - 1)
    /\ UNCHANGED <<store, pc, routes, nInst, middleware, calls, args, result>>

\* a plausible slip: the server listens before unpack(Parent) has returned
listenEarly ==
    /\ pc = "unpack"
    /\ pc' = "listening"
    /\ UNCHANGED <<store, stack, routes, nInst, middleware, calls, args, result>>

\* this.server = this.app.listen(port, ...), reached when unpack(Parent)
\* has returned
listen ==
    /\ pc = "unpack"
    /\ stack = <<>>
    /\ pc' = "listening"
    /\ UNCHANGED <<store, stack, routes, nInst, middleware, calls, args, result>>

----------------------------------------------------------------------------
(* The server: dispatch, and the request handler adapter *)

Matches(layer, req) == layer.verb = req.verb /\ layer.path = req.path

\* a router that would let the layer registered last answer
dispatchLast(layers, req) ==
    CHOOSE k \in 1..Len(layers) :
        /\ Matches(layers[k], req)
        /\ \A j \in 1..Len(layers) : Matches(layers[j], req) => j <= k

\* the express router walks its layers in registration order and hands the
\* request to the first whose verb and path match; the handlers of
\* getHandler take no next and never pass the request on
dispatch(layers, req) ==
    CHOOSE k \in 1..Len(layers) :
        /\ Matches(layers[k], req)
        /\ \A j \in 1..Len(layers) : Matches(layers[j], req) => k <= j

\* new HttpResponse(res, meta)
HttpResponse(res, meta) == [res |-> res, meta |-> meta]

\* a plausible slip: the metadata is read at class scope, not for the method
invokeClassMeta(h, req, res) ==
    [inst |-> h.inst, name |-> h.name, req |-> req,
     res |-> HttpResponse(res, getAll(h.inst.cls, NoScope))]

\* the handler closure h called with (req, res): the invocation
\* aComponent[name](req, new HttpResponse(res, meta)) it makes
invoke(h, req, res) ==
    [inst |-> h.inst, name |-> h.name, req |-> req,
     res |-> HttpResponse(res, getAll(h.inst.cls, h.name))]

\* the verb+path pairs some layer answers
Served == {[verb |-> routes[k].verb, path |-> routes[k].path] : k \in 1..Len(routes)}

\* a request arrives at the listening server and its handler runs
request ==
    /\ pc = "listening"
    /\ Len(calls) < MaxReq
    /\ \E r \in Served :
         LET id == Len(calls) + 1
             req == [verb |-> r.verb, path |-> r.path, id |-> id]
             h == routes[dispatch(routes, req)].handler
         IN  calls' = Append(calls, invoke(h, req, [id |-> id]))
    /\ UNCHANGED <<store, pc, stack, routes, nInst, middleware, args, result>>

----------------------------------------------------------------------------
(* The service: one bootstrap of a loaded program, then requests *)

Init ==
    /\ \E m0 \in M0Decls, m1 \in M1Decls, m2 \in M2Decls,
          gs \in GetStuffDecls, ls \in ListDecls, cv \in ClassVerbDecls :
         store = Load(m0, m1, m2, gs, ls, cv)
    /\ pc = "start"
    /\ stack = <<>>
    /\ routes = <<>>
    /\ nInst = 0
    /\ middleware = <<>>
    /\ calls = <<>>
    /\ args = <<>>
    /\ result = Undefined

Next ==
    \/ bootstrap
    \/ unpackChild
    \/ unpackReturn
    \/ listen
    \/ request

Spec == Init /\ [][Next]_vars

----------------------------------------------------------------------------
(* The walk on its own: bootstrap of every module graph, one mapping of the
   components' methods, no request *)

WalkInit ==
    /\ \E m0 \in M0Decls, m1 \in M1Decls, m2 \in M2Decls :
         store = Load(m0, m1, m2,
                      [verb |-> Str(sGet), path |-> Str(sStuff)],
                      [verb |-> Str(sGet), path |-> Undefined],
                      Undefined)
    /\ pc = "start"
    /\ stack = <<>>
    /\ routes = <<>>
    /\ nInst = 0
    /\ middleware = <<>>
    /\ calls = <<>>
    /\ args = <<>>
    /\ result = Undefined

WalkNext ==
    \/ bootstrap
    \/ unpackChild
    \/ unpackReturn
    \/ listen

\* bootstrap is one synchronous call: once entered it runs on until it
\* returns or recurses for ever
FairSpec == WalkInit /\ [][WalkNext]_vars /\ WF_vars(WalkNext)

----------------------------------------------------------------------------
(* getPath on its own: every argument list up to MaxParts parts *)

PartValues == {Null, Undefined, Str(sEmpty), Str(<<"a">>), Str(<<"b">>),
               Str(<<"a", "b">>), Str(<<Slash>>)}

PartLists == UNION {[1..n -> PartValues] : n \in 0..MaxParts}

PathInit ==
    /\ args \in PartLists
    /\ pc = "call"
    /\ result = Undefined
    /\ store = EmptyStore
    /\ stack = <<>>
    /\ routes = <<>>
    /\ nInst = 0
    /\ middleware = <<>>
    /\ calls = <<>>

callGetPath ==
    /\ pc = "call"
    /\ result' = getPath(args)
    /\ pc' = "returned"
    /\ UNCHANGED <<store, stack, routes, nInst, middleware, calls, args>>

PathNext == callGetPath

PathSpec == PathInit /\ [][PathNext]_vars

----------------------------------------------------------------------------
(* Injector.get on its own: records are defined, then looked up *)

GetKeys == {"k", "other"}
GetScopes == {NoScope, "m", "n"}
GetValues == {Str(<<"1">>), Str(<<"2">>)}
GetDefaults == {Undefined, Str(<<"d">>)}

GetInit ==
    /\ store = EmptyStore
    /\ pc = "loading"
    /\ args = <<>>
    /\ result = Undefined
    /\ stack = <<>>
    /\ routes = <<>>
    /\ nInst = 0
    /\ middleware = <<>>
    /\ calls = <<>>

\* a class definition is loaded: one more record on target T
define ==
    /\ pc = "loading"
    /\ \E k \in GetKeys, s \in GetScopes, v \in GetValues :
         /\ <<"T", k, s>> \notin DOMAIN store
         /\ store' = set(store, "T", k, s, v)
    /\ UNCHANGED <<pc, stack, routes, nInst, middleware, calls, args, result>>

\* Injector.get("T", key, default, scope)
lookup ==
    /\ \E k \in GetKeys, d \in GetDefaults, s \in GetScopes :
         /\ args' = <<k, d, s>>
         /\ result' = get("T", k, d, s)
    /\ pc' = "looked"
    /\ UNCHANGED <<store, stack, routes, nInst, middleware, calls>>

GetNext == define \/ lookup

GetSpec == GetInit /\ [][GetNext]_vars

----------------------------------------------------------------------------
(* What the claims are stated with *)

\* the record of the store, or d where there is none
Recorded(target, key, scope, d) ==
    IF <<target, key, scope>> \in DOMAIN store THEN store[<<target, key, scope>>] ELSE d

PathOf(m) == Recorded(m, "path", NoScope, Str(sEmpty)).v
ImportsOf(m) == Recorded(m, "imports", NoScope, List(<<>>)).v
ExportsOf(m) == Recorded(m, "exports", NoScope, List(<<>>)).v
HasVerb(c, name) == <<c, "method", name>> \in DOMAIN store
SubPathOf(c, name) == Recorded(c, "path", name, Str(sEmpty)).v

\* the non-empty segments joined with '/', built from the last segment back
RECURSIVE Glue(_)
Glue(segs) ==
    IF segs = <<>> THEN <<>>
    ELSE LET init == Glue(SubSeq(segs, 1, Len(segs) - 1))
             last == segs[Len(segs)]
         IN  IF last = <<>> THEN init
             ELSE IF init = <<>> THEN last
             ELSE init \o <<Slash>> \o last

\* the modules from the root down to the one the import indexes of site reach
RECURSIVE Chain(_, _)
Chain(m, site) ==
    IF site = <<>> THEN <<m>>
    ELSE <<m>> \o Chain(ImportsOf(m)[Head(site)], Tail(site))

\* the segments of a route: its modules' paths, then the method's sub-path
SegmentsOf(r) ==
    LET chain == Chain(Root, r.site)
    IN  [k \in 1..Len(chain) |-> PathOf(chain[k])]
            \o <<SubPathOf(r.handler.inst.cls, r.handler.name)>>

RouteFor(site, c, name) ==
    \E k \in 1..Len(routes) :
        /\ routes[k].site = site
        /\ routes[k].handler.inst.cls = c
        /\ routes[k].handler.name = name

Chars(r) == <<r.verb, r.path>>
sRootStuff == <<Slash>> \o sRoot \o <<Slash>> \o sStuff
sRootXStuff == <<Slash>> \o sRoot \o <<Slash>> \o sX \o <<Slash>> \o sStuff
sSlashX == <<Slash>> \o sX

----------------------------------------------------------------------------
(* C1 *)

\* C1: every route registered for a method that has a verb carries that verb
\* and the path '/' + the '/'-joined non-empty segments, root to leaf, of its
\* modules' paths and the method's sub-path; every such method of a module
\* that has been unpacked has its route; verb "get" with sub-path "stuff"
\* under the root module's path "root" is GET /root/stuff.
C1_FullPath ==
    /\ \A k \in 1..Len(routes) :
         LET r == routes[k]
         IN  /\ r.path = <<Slash>> \o Glue(SegmentsOf(r))
             /\ HasVerb(r.handler.inst.cls, r.handler.name) =>
                    r.verb = store[<<r.handler.inst.cls, "method", r.handler.name>>].v
    /\ \A f \in 1..Len(stack) :
         \A e \in 1..Len(ExportsOf(stack[f].Parent)) :
            LET c == ExportsOf(stack[f].Parent)[e]
            IN  \A name \in {"getStuff", "other", "list"} :
                   (HasVerb(c, name) /\ \E n \in 1..Len(getMethodList(c)) : getMethodList(c)[n] = name)
                       => RouteFor(stack[f].site, c, name)
    /\ ( /\ pc # "start"
         /\ PathOf(Root) = sRoot
         /\ Recorded("A", "method", "getStuff", Null) = Str(sGet)
         /\ Recorded("A", "path", "getStuff", Null) = Str(sStuff) )
       => \E k \in 1..Len(routes) : Chars(routes[k]) = <<sGet, sRootStuff>>

C1_Witness ==
    /\ \E k \in 1..Len(routes) : Chars(routes[k]) = <<sGet, sRootStuff>> /\ routes[k].site = <<>>
    /\ \E k \in 1..Len(routes) : Chars(routes[k]) = <<sGet, sRootXStuff>> /\ Len(routes[k].site) = 2

----------------------------------------------------------------------------
(* C2 *)

\* C2: no route is registered for a method that has no method-scoped verb
\* record, whatever is recorded at class scope.
C2_NoVerbNoRoute ==
    \A k \in 1..Len(routes) : HasVerb(routes[k].handler.inst.cls, routes[k].handler.name)

----------------------------------------------------------------------------
(* C3 *)

AllKept ==
    \A site \in {<<>>} \cup {<<i>> : i \in 1..Len(ImportsOf(Root))} :
        LET m == Chain(Root, site)[Len(site) + 1]
        IN  \A e \in 1..Len(ExportsOf(m)) :
               \A n \in 1..Len(getMethodList(ExportsOf(m)[e])) :
                  HasVerb(ExportsOf(m)[e], getMethodList(ExportsOf(m)[e])[n])
                      => RouteFor(site, ExportsOf(m)[e], getMethodList(ExportsOf(m)[e])[n])

----------------------------------------------------------------------------
(* C4 *)

IsPrefix(s, t) == Len(s) <= Len(t) /\ SubSeq(t, 1, Len(s)) = s

\* site s is left of site t in the import tree: at the first index where they
\* differ, s took the earlier import
LeftOf(s, t) ==
    \E k \in 1..Len(s) :
        /\ k <= Len(t)
        /\ SubSeq(s, 1, k - 1) = SubSeq(t, 1, k - 1)
        /\ s[k] < t[k]

Pos(seq, x) == CHOOSE n \in 1..Len(seq) : seq[n] = x

\* C4: in registration order, a module's own routes come before those of its
\* imports' subtrees, the subtree of an earlier import before that of a later
\* one, and within one module the routes follow the export list (and, for one
\* component, its method list).
C4_Order ==
    \A i, j \in 1..Len(routes) :
        i < j =>
            LET a == routes[i]
                b == routes[j]
                m == Chain(Root, a.site)[Len(a.site) + 1]
            IN  IF a.site = b.site
                THEN \/ Pos(ExportsOf(m), a.handler.inst.cls) < Pos(ExportsOf(m), b.handler.inst.cls)
                     \/ /\ a.handler.inst.cls = b.handler.inst.cls
                        /\ Pos(getMethodList(a.handler.inst.cls), a.handler.name)
                              < Pos(getMethodList(a.handler.inst.cls), b.handler.name)
                ELSE IsPrefix(a.site, b.site) \/ LeftOf(a.site, b.site)

C4_Witness ==
    /\ pc = "listening"
    /\ \E i, j \in 1..Len(routes) :
          /\ i < j
          /\ routes[i].site = <<>> /\ routes[j].site = <<>>
          /\ routes[i].handler.inst.cls = "A" /\ routes[j].handler.inst.cls = "B"
    /\ \E k \in 1..Len(routes) : routes[k].site = <<1>>
    /\ \E k \in 1..Len(routes) : routes[k].site = <<1, 1>>
    /\ \E k \in 1..Len(routes) : routes[k].site = <<2>>

----------------------------------------------------------------------------
(* C5 *)

\* C5: a lookup with a method scope returns that method's record when there
\* is one, else the class-scope record when there is one, else the supplied
\* default; a miss raises nothing: the lookup always has a result.
C5_Resolution ==
    pc = "looked" =>
        LET k == args[1]
            d == args[2]
            s == args[3]
        IN  /\ <<"T", k, s>> \in DOMAIN store => result = store[<<"T", k, s>>]
            /\ (<<"T", k, s>> \notin DOMAIN store /\ <<"T", k, NoScope>> \in DOMAIN store)
                   => result = store[<<"T", k, NoScope>>]
            /\ (<<"T", k, s>> \notin DOMAIN store /\ <<"T", k, NoScope>> \notin DOMAIN store)
                   => result = d
            /\ result \in GetValues \cup GetDefaults

\* class scope holds k = 1 and method m holds k = 2: m sees 2, n sees 1
C5_Witness ==
    /\ pc = "looked"
    /\ <<"T", "k", "n">> \notin DOMAIN store
    /\ Recorded("T", "k", NoScope, Null) = Str(<<"1">>)
    /\ Recorded("T", "k", "m", Null) = Str(<<"2">>)
    /\ \/ args[1] = "k" /\ args[3] = "m" /\ result = Str(<<"2">>)
       \/ args[1] = "k" /\ args[3] = "n" /\ result = Str(<<"1">>)

----------------------------------------------------------------------------
(* C6 *)

\* s cut at every '/'
RECURSIVE Split(_, _)
Split(s, cur) ==
    IF s = <<>> THEN <<cur>>
    ELSE IF Head(s) = Slash THEN <<cur>> \o Split(Tail(s), <<>>)
         ELSE Split(Tail(s), Append(cur, Head(s)))

\* the parts that are non-empty strings, in their order
Kept(parts) == SelectSeq(parts, LAMBDA p : p.t = "str" /\ Len(p.v) > 0)

NoSlashIn(parts) ==
    \A n \in 1..Len(parts) : \A c \in 1..Len(parts[n].v) : parts[n].v[c] # Slash

sAB == <<"a", Slash, "b">>

\* C6: getPath returns the non-empty parts joined with '/' in their order:
\* ['', 'a', '', 'b'] gives 'a/b' and [] gives ''; when no part contains a
\* '/', the result cut at '/' is exactly the non-empty parts, so it neither
\* starts nor ends with '/' and has no empty segment.
C6_GetPath ==
    pc = "returned" =>
        LET kept == Kept(args)
            r == result.v
        IN  /\ result.t = "str"
            /\ r = Glue([n \in 1..Len(args) |-> IF args[n].t = "str" THEN args[n].v ELSE <<>>])
            /\ kept = <<>> => r = <<>>
            /\ args = <<>> => r = <<>>
            /\ args = <<Str(sEmpty), Str(<<"a">>), Str(sEmpty), Str(<<"b">>)>> => r = sAB
            /\ (NoSlashIn(args) /\ kept # <<>>) =>
                  /\ Split(r, <<>>) = [n \in 1..Len(kept) |-> kept[n].v]
                  /\ r[1] # Slash
                  /\ r[Len(r)] # Slash
                  /\ \A c \in 1..(Len(r) - 1) : ~(r[c] = Slash /\ r[c + 1] = Slash)

C6_Witness ==
    /\ pc = "returned"
    /\ args = <<Str(sEmpty), Str(<<"a">>), Str(sEmpty), Str(<<"b">>)>>
    /\ result = Str(sAB)

----------------------------------------------------------------------------
(* C7 *)

Successors(ms) == UNION {{ImportsOf(m)[k] : k \in 1..Len(ImportsOf(m))} : m \in ms}

\* the modules that at most n imports lead to from those of ms
RECURSIVE Reach(_, _)
Reach(ms, n) == IF n = 0 THEN ms ELSE Reach(ms \cup Successors(ms), n - 1)

\* some module the root leads to leads back to itself
CyclicFromRoot ==
    \E m \in Reach({Root}, Cardinality(Modules)) :
        m \in Reach(Successors({m}), Cardinality(Modules))

\* some module is being unpacked inside its own unpacking
Reentered ==
    \E k, l \in 1..Len(stack) : k < l /\ stack[k].Parent = stack[l].Parent

\* C7: when the imports reachable from the root module contain a cycle, the
\* walk enters a module again inside its own unpacking, recurses as deep as
\* it is followed (MaxDepth frames) and unpack(root) never returns, so the
\* server never listens; when they contain none, the walk ends and the
\* server listens.
C7_NoCycleDetection ==
    /\ [](CyclicFromRoot => pc # "listening")
    /\ (CyclicFromRoot ~> Reentered)
    /\ (CyclicFromRoot ~> Len(stack) = MaxDepth)
    /\ (~CyclicFromRoot ~> pc = "listening")

C7_Witness ==
    /\ CyclicFromRoot
    /\ Reentered
    /\ \E k, l, n \in 1..Len(stack) :
          k < l /\ l < n /\ stack[k].Parent = stack[l].Parent /\ stack[l].Parent = stack[n].Parent

----------------------------------------------------------------------------
(* C8 *)

\* C8: bootstrap runs once; the server starts listening only when unpack of
\* the root module has returned; every route is registered before that, none
\* after it, and none twice for one unpacking of a module.
C8_RegisterThenListen ==
    [][ /\ (pc # "start") => (pc' # "start")
        /\ (pc # "listening" /\ pc' = "listening") => (stack = <<>> /\ routes' = routes)
        /\ (pc = "listening") => (pc' = "listening" /\ routes' = routes /\ stack' = stack
                                   /\ middleware' = middleware)
        /\ (routes' # routes) => (pc \in {"start", "unpack"} /\ pc' = "unpack")
        /\ \A i, j \in 1..Len(routes') :
              (i < j) => <<routes'[i].site, routes'[i].handler.inst.cls, routes'[i].handler.name>>
                           # <<routes'[j].site, routes'[j].handler.inst.cls, routes'[j].handler.name>>
      ]_vars

C8_Witness ==
    /\ pc = "listening"
    /\ Len(routes) >= 3
    /\ \E k \in 1..Len(routes) : routes[k].site # <<>>
    /\ calls # <<>>

----------------------------------------------------------------------------
(* C9 *)

\* the root module is recorded with path '', no exports and no imports
EmptyRoot ==
    /\ Recorded(Root, "path", NoScope, Null) = Str(sEmpty)
    /\ Recorded(Root, "exports", NoScope, Null) = List(<<>>)
    /\ Recorded(Root, "imports", NoScope, Null) = List(<<>>)

\* C9: @LitModule() with no argument records path '', exports [] and
\* imports []; unpacking a module with path '', no exports and no imports
\* registers no route, calls no further unpack, and returns, so that the
\* server listens.
C9_EmptyModule ==
    /\ LitModule(EmptyStore, Root, NoConfig) =
          [k \in {<<Root, "path", NoScope>>, <<Root, "exports", NoScope>>,
                  <<Root, "imports", NoScope>>} |->
              IF k[2] = "path" THEN Str(sEmpty) ELSE List(<<>>)]
    /\ [](EmptyRoot => (routes = <<>> /\ Len(stack) <= 1))
    /\ (EmptyRoot ~> (pc = "listening" /\ routes = <<>>))

C9_Witness ==
    /\ EmptyRoot
    /\ pc = "listening"
    /\ routes = <<>>
    /\ middleware # <<>>

----------------------------------------------------------------------------
(* C10 *)

\* what a call shows of its request's route, leaving out which request it was
Outcome(c) == <<c.req.verb, c.req.path, c.inst, c.name, c.res.meta>>

\* C10: a handler invocation calls the method of the component instance its
\* route was registered with, with the request and a response of its own made
\* of the raw response and exactly the records of that method's scope; it
\* changes neither the store nor the routes nor an earlier call; a request
\* for a route served before has the outcome it had then.
C10_HandlerFrame ==
    [][ (calls' # calls) =>
          /\ store' = store /\ routes' = routes /\ nInst' = nInst /\ middleware' = middleware
          /\ Len(calls') = Len(calls) + 1
          /\ SubSeq(calls', 1, Len(calls)) = calls
          /\ LET c == calls'[Len(calls')]
             IN  /\ \E k \in 1..Len(routes) :
                       /\ Matches(routes[k], c.req)
                       /\ routes[k].handler = [inst |-> c.inst, name |-> c.name]
                 /\ c.req.id = Len(calls')
                 /\ c.res.res = [id |-> c.req.id]
                 /\ \A key \in {"path", "exports", "imports", "method"} :
                       /\ key \in DOMAIN c.res.meta <=> <<c.inst.cls, key, c.name>> \in DOMAIN store
                       /\ key \in DOMAIN c.res.meta => c.res.meta[key] = store[<<c.inst.cls, key, c.name>>]
                 /\ \A n \in 1..Len(calls) :
                       (calls[n].req.verb = c.req.verb /\ calls[n].req.path = c.req.path)
                           => Outcome(calls[n]) = Outcome(c)
      ]_vars

\* the same route served twice, and two different routes served in turn
C10_Witness ==
    /\ Len(calls) = 2
    /\ \/ Outcome(calls[1]) = Outcome(calls[2])
       \/ calls[1].inst.cls # calls[2].inst.cls

====
